---- MODULE Spec2Model ----
(***************************************************************************)
(* tracing-fluent-assertions: the registry of span matchers and their      *)
(* counters (state.rs), the span matcher (matcher.rs), the tracing layer's *)
(* four lifecycle hooks (layer.rs) and the finalized Assertion handle      *)
(* (assertion.rs), run by several threads over one shared State.           *)
(*                                                                         *)
(* Option<T> is a sequence of length at most one: None is <<>>, Some(x) is *)
(* <<x>>.  An Arc<EntryState> is an address into `heap`; an address is     *)
(* live while the map, a handle or a thread's local still refers to it.    *)
(* usize counters are far from wrapping within the bounds, so they are     *)
(* plain naturals here.                                                    *)
(***************************************************************************)
EXTENDS Integers, Sequences, FiniteSets, TLC

\* ------------------------------------------------------------------ bounds
NumThreads == 2
MaxHandles == 2
\* Hooks fired in all, where assertions come and go (Spec).
MaxFire == 2
\* Hooks fired by each thread, against one standing assertion (SpecHooks).
PerThread == 2

\* The largest counter value an evaluated snapshot holds (SpecEval).
MaxCount == 2

\* The criteria and the required fields a builder is given (SpecBuild).
MaxCriteria == 2
MaxFields == 2

\* The ancestors of a span and the hooks fired, where every matcher meets
\* every span (SpecMatch).
MaxDepth == 2
MatchFire == 1

Threads == 1..NumThreads
Slots == 1..MaxHandles
NoThread == 0

None == <<>>
Some(x) == <<x>>

\* The four counters of an EntryState, and the Layer hook that stands for each
\* lifecycle transition.
Kinds == {"created", "entered", "exited", "closed"}
Hooks == {"new_span", "on_enter", "on_exit", "on_close"}
KindOf(hook) ==
    CASE hook = "new_span" -> "created"
      [] hook = "on_enter" -> "entered"
      [] hook = "on_exit" -> "exited"
      [] hook = "on_close" -> "closed"

\* ------------------------------------------------------------- matcher.rs
\* struct SpanMatcher { name, target, parent_name, fields: Vec<FieldCriterion> }
SpanMatcher(n, t, p, f) ==
    [name |-> n, target |-> t, parent_name |-> p, fields |-> f]

\* SpanMatcher::default() and the four setters; add_field_exists pushes onto
\* the Vec, so the fields keep the order they were added in.
SpanMatcher_default == SpanMatcher(None, None, None, <<>>)
set_name(m, n) == [m EXCEPT !.name = Some(n)]
set_parent_name(m, n) == [m EXCEPT !.parent_name = Some(n)]
set_target(m, n) == [m EXCEPT !.target = Some(n)]
add_field_exists(m, f) == [m EXCEPT !.fields = Append(@, f)]

\* The matchers the assertions of the model are built with.
Matchers ==
    { SpanMatcher(Some("checkout"), None, None, <<>>),
      SpanMatcher(None, Some("app"), None, <<>>),
      SpanMatcher(Some("cart"), None, Some("checkout"), <<"user">>) }

\* What a SpanRef shows the matcher: the span's name, its metadata's target,
\* the names of its ancestors (nearest first) and the names of its fields.
SpanRef(n, t, ps, fs) == [name |-> n, target |-> t, parents |-> ps, fields |-> fs]

\* The spans the hooks of the model are called on.
Spans ==
    { SpanRef("checkout", "app", <<>>, {}),
      SpanRef("cart", "lib", <<"root", "checkout">>, {"user", "sku"}),
      SpanRef("other", "lib", <<"checkout">>, {}) }

\* A faulty walk: only the span's direct parent is looked at.
has_matching_parent_direct(name, parents) ==
    parents # <<>> /\ Head(parents) = name

\* The `while let Some(span) = parent` walk of SpanMatcher::matches.
RECURSIVE has_matching_parent(_, _)
has_matching_parent(name, parents) ==
    IF parents = <<>> THEN FALSE
    ELSE IF Head(parents) = name THEN TRUE
    ELSE has_matching_parent(name, Tail(parents))

\* The `for field in &self.fields` loop of SpanMatcher::matches.
RECURSIVE fields_exist(_, _)
fields_exist(fields, span_fields) ==
    IF fields = <<>> THEN TRUE
    ELSE IF Head(fields) \notin span_fields THEN FALSE
    ELSE fields_exist(Tail(fields), span_fields)

\* A faulty matches: the target is not compared.
matches_no_target(m, span) ==
    IF m.name # None /\ span.name # m.name[1] THEN FALSE
    ELSE IF m.parent_name # None
            /\ ~has_matching_parent(m.parent_name[1], span.parents) THEN FALSE
    ELSE IF m.fields # <<>> /\ ~fields_exist(m.fields, span.fields) THEN FALSE
    ELSE TRUE

matches(m, span) ==
    IF m.name # None /\ span.name # m.name[1] THEN FALSE
    ELSE IF m.target # None /\ span.target # m.target[1] THEN FALSE
    ELSE IF m.parent_name # None
            /\ ~has_matching_parent(m.parent_name[1], span.parents) THEN FALSE
    ELSE IF m.fields # <<>> /\ ~fields_exist(m.fields, span.fields) THEN FALSE
    ELSE TRUE

\* --------------------------------------------------------------- state.rs
\* EntryState::default()
EntryState == [created |-> 0, entered |-> 0, exited |-> 0, closed |-> 0]

\* Faulty variants of track_*, for showing that the claims notice them:
\* track_closed bumping `created`, and track_exited subtracting.
track_closed_as_created(hp, e) == [hp EXCEPT ![e].created = @ + 1]
track_exited_sub(hp, e) == [hp EXCEPT ![e].exited = @ - 1]

\* fetch_add(1) on one counter of the EntryState at address e.
track_created(hp, e) == [hp EXCEPT ![e].created = @ + 1]
track_entered(hp, e) == [hp EXCEPT ![e].entered = @ + 1]
track_exited(hp, e) == [hp EXCEPT ![e].exited = @ + 1]
track_closed(hp, e) == [hp EXCEPT ![e].closed = @ + 1]

num_created(hp, e) == hp[e].created
num_entered(hp, e) == hp[e].entered
num_exited(hp, e) == hp[e].exited
num_closed(hp, e) == hp[e].closed

\* ------------------------------------------------------------ assertion.rs
\* enum AssertionCriterion: a tag and, for the Exactly and AtLeast variants, n.
Criterion(tag, n) == [tag |-> tag, n |-> n]

\* A faulty try_assert of a criterion: ExitedAtLeast tests `>` for `>=`.
criterion_try_assert_gt(c, hp, e) ==
    CASE c.tag = "WasCreated" -> num_created(hp, e) # 0
      [] c.tag = "WasEntered" -> num_entered(hp, e) # 0
      [] c.tag = "WasExited" -> num_exited(hp, e) # 0
      [] c.tag = "WasClosed" -> num_closed(hp, e) # 0
      [] c.tag = "WasNotCreated" -> num_created(hp, e) = 0
      [] c.tag = "WasNotEntered" -> num_entered(hp, e) = 0
      [] c.tag = "WasNotExited" -> num_exited(hp, e) = 0
      [] c.tag = "WasNotClosed" -> num_closed(hp, e) = 0
      [] c.tag = "CreatedExactly" -> num_created(hp, e) = c.n
      [] c.tag = "EnteredExactly" -> num_entered(hp, e) = c.n
      [] c.tag = "ExitedExactly" -> num_exited(hp, e) = c.n
      [] c.tag = "ClosedExactly" -> num_closed(hp, e) = c.n
      [] c.tag = "CreatedAtLeast" -> num_created(hp, e) >= c.n
      [] c.tag = "EnteredAtLeast" -> num_entered(hp, e) >= c.n
      [] c.tag = "ExitedAtLeast" -> num_exited(hp, e) > c.n
      [] c.tag = "ClosedAtLeast" -> num_closed(hp, e) >= c.n

\* AssertionCriterion::try_assert on the EntryState at address e.
criterion_try_assert(c, hp, e) ==
    CASE c.tag = "WasCreated" -> num_created(hp, e) # 0
      [] c.tag = "WasEntered" -> num_entered(hp, e) # 0
      [] c.tag = "WasExited" -> num_exited(hp, e) # 0
      [] c.tag = "WasClosed" -> num_closed(hp, e) # 0
      [] c.tag = "WasNotCreated" -> num_created(hp, e) = 0
      [] c.tag = "WasNotEntered" -> num_entered(hp, e) = 0
      [] c.tag = "WasNotExited" -> num_exited(hp, e) = 0
      [] c.tag = "WasNotClosed" -> num_closed(hp, e) = 0
      [] c.tag = "CreatedExactly" -> num_created(hp, e) = c.n
      [] c.tag = "EnteredExactly" -> num_entered(hp, e) = c.n
      [] c.tag = "ExitedExactly" -> num_exited(hp, e) = c.n
      [] c.tag = "ClosedExactly" -> num_closed(hp, e) = c.n
      [] c.tag = "CreatedAtLeast" -> num_created(hp, e) >= c.n
      [] c.tag = "EnteredAtLeast" -> num_entered(hp, e) >= c.n
      [] c.tag = "ExitedAtLeast" -> num_exited(hp, e) >= c.n
      [] c.tag = "ClosedAtLeast" -> num_closed(hp, e) >= c.n

\* A faulty assert of a criterion: WasNotClosed reads the created counter.
criterion_assert_created(c, hp, e) ==
    CASE c.tag = "WasCreated" -> IF num_created(hp, e) # 0 THEN "ok" ELSE "panic"
      [] c.tag = "WasEntered" -> IF num_entered(hp, e) # 0 THEN "ok" ELSE "panic"
      [] c.tag = "WasExited" -> IF num_exited(hp, e) # 0 THEN "ok" ELSE "panic"
      [] c.tag = "WasClosed" -> IF num_closed(hp, e) # 0 THEN "ok" ELSE "panic"
      [] c.tag = "WasNotCreated" -> IF 0 = num_created(hp, e) THEN "ok" ELSE "panic"
      [] c.tag = "WasNotEntered" -> IF 0 = num_entered(hp, e) THEN "ok" ELSE "panic"
      [] c.tag = "WasNotExited" -> IF 0 = num_exited(hp, e) THEN "ok" ELSE "panic"
      [] c.tag = "WasNotClosed" -> IF 0 = num_created(hp, e) THEN "ok" ELSE "panic"
      [] c.tag = "CreatedExactly" -> IF num_created(hp, e) = c.n THEN "ok" ELSE "panic"
      [] c.tag = "EnteredExactly" -> IF num_entered(hp, e) = c.n THEN "ok" ELSE "panic"
      [] c.tag = "ExitedExactly" -> IF num_exited(hp, e) = c.n THEN "ok" ELSE "panic"
      [] c.tag = "ClosedExactly" -> IF num_closed(hp, e) = c.n THEN "ok" ELSE "panic"
      [] c.tag = "CreatedAtLeast" -> IF num_created(hp, e) >= c.n THEN "ok" ELSE "panic"
      [] c.tag = "EnteredAtLeast" -> IF num_entered(hp, e) >= c.n THEN "ok" ELSE "panic"
      [] c.tag = "ExitedAtLeast" -> IF num_exited(hp, e) >= c.n THEN "ok" ELSE "panic"
      [] c.tag = "ClosedAtLeast" -> IF num_closed(hp, e) >= c.n THEN "ok" ELSE "panic"

\* AssertionCriterion::assert on the EntryState at address e: the assert! and
\* assert_eq! of each arm either passes or panics.
criterion_assert(c, hp, e) ==
    CASE c.tag = "WasCreated" -> IF num_created(hp, e) # 0 THEN "ok" ELSE "panic"
      [] c.tag = "WasEntered" -> IF num_entered(hp, e) # 0 THEN "ok" ELSE "panic"
      [] c.tag = "WasExited" -> IF num_exited(hp, e) # 0 THEN "ok" ELSE "panic"
      [] c.tag = "WasClosed" -> IF num_closed(hp, e) # 0 THEN "ok" ELSE "panic"
      [] c.tag = "WasNotCreated" -> IF 0 = num_created(hp, e) THEN "ok" ELSE "panic"
      [] c.tag = "WasNotEntered" -> IF 0 = num_entered(hp, e) THEN "ok" ELSE "panic"
      [] c.tag = "WasNotExited" -> IF 0 = num_exited(hp, e) THEN "ok" ELSE "panic"
      [] c.tag = "WasNotClosed" -> IF 0 = num_closed(hp, e) THEN "ok" ELSE "panic"
      [] c.tag = "CreatedExactly" -> IF num_created(hp, e) = c.n THEN "ok" ELSE "panic"
      [] c.tag = "EnteredExactly" -> IF num_entered(hp, e) = c.n THEN "ok" ELSE "panic"
      [] c.tag = "ExitedExactly" -> IF num_exited(hp, e) = c.n THEN "ok" ELSE "panic"
      [] c.tag = "ClosedExactly" -> IF num_closed(hp, e) = c.n THEN "ok" ELSE "panic"
      [] c.tag = "CreatedAtLeast" -> IF num_created(hp, e) >= c.n THEN "ok" ELSE "panic"
      [] c.tag = "EnteredAtLeast" -> IF num_entered(hp, e) >= c.n THEN "ok" ELSE "panic"
      [] c.tag = "ExitedAtLeast" -> IF num_exited(hp, e) >= c.n THEN "ok" ELSE "panic"
      [] c.tag = "ClosedAtLeast" -> IF num_closed(hp, e) >= c.n THEN "ok" ELSE "panic"

\* AssertionBuilder<S>: the stage S, the matcher so far and the criteria so far.
AssertionBuilder(stage, m, cs) == [stage |-> stage, matcher |-> m, criteria |-> cs]

\* AssertionRegistry::build
build_new == AssertionBuilder("NoMatcher", None, <<>>)

\* The method that pushes each criterion.
AdderOf(tag) ==
    CASE tag = "WasCreated" -> "was_created"
      [] tag = "WasEntered" -> "was_entered"
      [] tag = "WasExited" -> "was_exited"
      [] tag = "WasClosed" -> "was_closed"
      [] tag = "WasNotCreated" -> "was_not_created"
      [] tag = "WasNotEntered" -> "was_not_entered"
      [] tag = "WasNotExited" -> "was_not_exited"
      [] tag = "WasNotClosed" -> "was_not_closed"
      [] tag = "CreatedExactly" -> "was_created_exactly"
      [] tag = "EnteredExactly" -> "was_entered_exactly"
      [] tag = "ExitedExactly" -> "was_exited_exactly"
      [] tag = "ClosedExactly" -> "was_closed_exactly"
      [] tag = "CreatedAtLeast" -> "was_created_at_least"
      [] tag = "EnteredAtLeast" -> "was_entered_at_least"
      [] tag = "ExitedAtLeast" -> "was_exited_at_least"
      [] tag = "ClosedAtLeast" -> "was_closed_at_least"

Setters == {"with_name", "with_target", "with_parent_name", "with_span_field"}
Adders ==
    {"was_created", "was_entered", "was_exited", "was_closed",
     "was_not_created", "was_not_entered", "was_not_exited", "was_not_closed",
     "was_created_exactly", "was_entered_exactly", "was_exited_exactly",
     "was_closed_exactly", "was_created_at_least", "was_entered_at_least",
     "was_exited_at_least", "was_closed_at_least"}

\* A faulty builder: finalize is also a method of AssertionBuilder<NoCriteria>.
Methods_early_finalize(stage) ==
    CASE stage = "NoMatcher" -> {"with_name", "with_target"}
      [] stage = "NoCriteria" -> Setters \cup Adders \cup {"finalize"}
      [] stage = "Constrained" -> Adders \cup {"finalize"}

\* A faulty builder: with_parent_name is also a method of
\* AssertionBuilder<NoMatcher>, so a matcher can start from a parent name alone.
Methods_parent_first(stage) ==
    CASE stage = "NoMatcher" -> {"with_name", "with_target", "with_parent_name"}
      [] stage = "NoCriteria" -> Setters \cup Adders
      [] stage = "Constrained" -> Adders \cup {"finalize"}

\* The methods each `impl AssertionBuilder<S>` block has: a call of any other
\* method on a builder of that stage does not compile.
Methods(stage) ==
    CASE stage = "NoMatcher" -> {"with_name", "with_target"}
      [] stage = "NoCriteria" -> Setters \cup Adders
      [] stage = "Constrained" -> Adders \cup {"finalize"}

\* `self.matcher.get_or_insert_with(SpanMatcher::default)`
get_or_insert_default(m) == IF m = None THEN SpanMatcher_default ELSE m[1]

VARIABLES
    entries,   \* State.entries: HashMap<SpanMatcher, Arc<EntryState>>
    lock,      \* the thread holding the Mutex around State.entries
    heap,      \* the live EntryState allocations, by address
    handles,   \* the Assertions that exist, by slot: Option<Assertion>
    pc,        \* where each thread is
    op,        \* the arguments of the operation each thread is in
    found,     \* the Option<Arc<EntryState>> get_entry returned to the thread
    fired,     \* how many hooks each thread has fired
    ret,       \* what the thread's last assert or try_assert returned
    observed   \* history: the lookups that matched the map's only entry

vars == <<entries, lock, heap, handles, pc, op, found, fired, ret, observed>>

\* ------------------------------------------------------------ allocations
EmptyMap == [x \in {} |-> 0]

\* A faulty Assertion: its entry_state is not an owning Arc, so only the map
\* and the threads' locals keep an allocation alive.
Refs_not_owning(es, hs, fs) ==
    {es[m] : m \in DOMAIN es} \cup {fs[t][1] : t \in {x \in Threads : fs[x] # None}}

\* The addresses the map, the handles and the threads' locals hold an Arc to.
Refs(es, hs, fs) ==
    {es[m] : m \in DOMAIN es}
        \cup {hs[h][1].entry_state : h \in {x \in Slots : hs[x] # None}}
        \cup {fs[t][1] : t \in {x \in Threads : fs[x] # None}}

\* An allocation is freed when its last Arc is dropped.
Collect(f, refs) == [a \in (DOMAIN f) \cap refs |-> f[a]]

\* Arc::new: an address no live allocation has.
NewArc(hp) ==
    CHOOSE a \in 1..(Cardinality(DOMAIN hp) + 1) :
        a \notin DOMAIN hp /\ \A b \in 1..(a - 1) : b \in DOMAIN hp

\* A handle the program can still use: it exists and is not inside its Drop.
Dropping(h) == \E t \in Threads : pc[t] = "remove_entry" /\ op[t].slot = h
Live(h) == handles[h] # None /\ ~Dropping(h)

\* History, kept while the map has held one entry only since that entry was
\* inserted: the entry's address and, per kind, the hooks whose lookup it matched.
Unseen(a) == Some([entry |-> a, seen |-> EntryState])

Init ==
    /\ entries = EmptyMap
    /\ lock = NoThread
    /\ heap = EmptyMap
    /\ handles = [h \in Slots |-> None]
    /\ pc = [t \in Threads |-> "idle"]
    /\ op = [t \in Threads |-> None]
    /\ found = [t \in Threads |-> None]
    /\ fired = [t \in Threads |-> 0]
    /\ ret = [t \in Threads |-> None]
    /\ observed = None

\* ---------------------------------------------------------------- layer.rs
\* A hook resolves its span and calls State::get_entry, which locks the map.
hook_call(t, hook, span) ==
    /\ pc[t] = "idle"
    /\ lock = NoThread
    /\ lock' = t
    /\ pc' = [pc EXCEPT ![t] = "get_entry"]
    /\ op' = [op EXCEPT ![t] = [hook |-> hook, span |-> span]]
    /\ fired' = [fired EXCEPT ![t] = @ + 1]
    /\ UNCHANGED <<entries, heap, handles, found, observed, ret>>

new_span(t, span) == hook_call(t, "new_span", span)
on_enter(t, span) == hook_call(t, "on_enter", span)
on_exit(t, span) == hook_call(t, "on_exit", span)
on_close(t, span) == hook_call(t, "on_close", span)

\* A faulty get_entry: `find` without the matcher test, so any entry is taken.
get_entry_any(t) ==
    /\ pc[t] = "get_entry"
    /\ LET hits == {m \in DOMAIN entries : matches(m, op[t].span)}
       IN /\ \/ /\ DOMAIN entries = {}
                /\ found' = [found EXCEPT ![t] = None]
             \/ \E m \in DOMAIN entries :
                    found' = [found EXCEPT ![t] = Some(entries[m])]
          /\ op' = [op EXCEPT ![t] =
                        [hook |-> op[t].hook, span |-> op[t].span,
                         hits |-> {entries[m] : m \in hits}]]
          /\ observed' =
                IF observed # None /\ hits # {}
                THEN Some([observed[1] EXCEPT !.seen[KindOf(op[t].hook)] = @ + 1])
                ELSE observed
    /\ lock' = NoThread
    /\ pc' = [pc EXCEPT ![t] = "track"]
    /\ UNCHANGED <<entries, heap, handles, fired, ret>>

\* A faulty get_entry: the MutexGuard is returned along with the entry, so the
\* caller still holds the mutex when it calls track_*.
get_entry_holds_guard(t) ==
    /\ pc[t] = "get_entry"
    /\ LET hits == {m \in DOMAIN entries : matches(m, op[t].span)}
       IN /\ \/ /\ hits = {}
                /\ found' = [found EXCEPT ![t] = None]
             \/ \E m \in hits : found' = [found EXCEPT ![t] = Some(entries[m])]
          /\ op' = [op EXCEPT ![t] =
                        [hook |-> op[t].hook, span |-> op[t].span,
                         hits |-> {entries[m] : m \in hits}]]
          /\ observed' =
                IF observed # None /\ hits # {}
                THEN Some([observed[1] EXCEPT !.seen[KindOf(op[t].hook)] = @ + 1])
                ELSE observed
    /\ pc' = [pc EXCEPT ![t] = "track"]
    /\ UNCHANGED <<entries, lock, heap, handles, fired, ret>>

\* State::get_entry under the lock: `entries.iter().find(..)` yields the first
\* entry, in the HashMap's arbitrary iteration order, whose matcher matches the
\* span, and the guard is released on return.  op.hits is history: the
\* addresses of all the entries whose matcher matched at this lookup.
get_entry(t) ==
    /\ pc[t] = "get_entry"
    /\ LET hits == {m \in DOMAIN entries : matches(m, op[t].span)}
       IN /\ \/ /\ hits = {}
                /\ found' = [found EXCEPT ![t] = None]
             \/ \E m \in hits : found' = [found EXCEPT ![t] = Some(entries[m])]
          /\ op' = [op EXCEPT ![t] =
                        [hook |-> op[t].hook, span |-> op[t].span,
                         hits |-> {entries[m] : m \in hits}]]
          /\ observed' =
                IF observed # None /\ hits # {}
                THEN Some([observed[1] EXCEPT !.seen[KindOf(op[t].hook)] = @ + 1])
                ELSE observed
    /\ lock' = NoThread
    /\ pc' = [pc EXCEPT ![t] = "track"]
    /\ UNCHANGED <<entries, heap, handles, fired, ret>>

\* A faulty layer: on_exit calls track_entered.
hook_track_swapped(hp, e, hook) ==
    CASE hook = "new_span" -> track_created(hp, e)
      [] hook = "on_enter" -> track_entered(hp, e)
      [] hook = "on_exit" -> track_entered(hp, e)
      [] hook = "on_close" -> track_closed(hp, e)

\* The track_* call each hook makes on the entry it was given.
hook_track(hp, e, hook) ==
    CASE hook = "new_span" -> track_created(hp, e)
      [] hook = "on_enter" -> track_entered(hp, e)
      [] hook = "on_exit" -> track_exited(hp, e)
      [] hook = "on_close" -> track_closed(hp, e)

\* A faulty track: the counter is loaded and stored back instead of fetch_add,
\* so of two threads tracking the same counter at once one increment is lost.
track_racy(t) ==
    /\ pc[t] = "track"
    /\ LET raced == \E u \in Threads \ {t} :
                        /\ pc[u] = "track"
                        /\ found[u] = found[t]
                        /\ op[u].hook = op[t].hook
           hp == IF found[t] = None \/ raced THEN heap
                 ELSE hook_track(heap, found[t][1], op[t].hook)
           fs == [found EXCEPT ![t] = None]
           refs == Refs(entries, handles, fs)
       IN /\ found' = fs
          /\ heap' = Collect(hp, refs)
    /\ pc' = [pc EXCEPT ![t] = "idle"]
    /\ op' = [op EXCEPT ![t] = None]
    /\ UNCHANGED <<entries, lock, handles, fired, observed, ret>>

\* A faulty hook: it keeps the key it found instead of the Arc and increments
\* whatever allocation a matching key is mapped to when it counts.
track_by_key(t) ==
    /\ pc[t] = "track"
    /\ LET hits == {m \in DOMAIN entries : matches(m, op[t].span)}
           hp == IF found[t] = None \/ hits = {} THEN heap
                 ELSE hook_track(heap, entries[CHOOSE m \in hits : TRUE],
                                 op[t].hook)
           fs == [found EXCEPT ![t] = None]
           refs == Refs(entries, handles, fs)
       IN /\ found' = fs
          /\ heap' = Collect(hp, refs)
    /\ pc' = [pc EXCEPT ![t] = "idle"]
    /\ op' = [op EXCEPT ![t] = None]
    /\ UNCHANGED <<entries, lock, handles, fired, observed, ret>>

\* `if let Some(entry) = .. { entry.track_*() }`, then the Arc goes out of scope.
track(t) ==
    /\ pc[t] = "track"
    /\ LET hp == IF found[t] = None THEN heap
                 ELSE hook_track(heap, found[t][1], op[t].hook)
           fs == [found EXCEPT ![t] = None]
           refs == Refs(entries, handles, fs)
       IN /\ found' = fs
          /\ heap' = Collect(hp, refs)
    /\ pc' = [pc EXCEPT ![t] = "idle"]
    /\ op' = [op EXCEPT ![t] = None]
    /\ UNCHANGED <<entries, lock, handles, fired, observed, ret>>

\* ------------------------------------------------------------ assertion.rs
\* AssertionRegistry::build: the thread holds a new builder.
build(t) ==
    /\ pc[t] = "idle"
    /\ pc' = [pc EXCEPT ![t] = "builder"]
    /\ op' = [op EXCEPT ![t] = build_new]
    /\ UNCHANGED <<entries, lock, heap, handles, found, fired, observed, ret>>

\* The matcher-setters of the builder the thread holds; each returns an
\* AssertionBuilder<NoCriteria>.
with_name(t, name) ==
    /\ pc[t] = "builder"
    /\ "with_name" \in Methods(op[t].stage)
    /\ op' = [op EXCEPT ![t] =
                AssertionBuilder("NoCriteria",
                    Some(set_name(get_or_insert_default(op[t].matcher), name)),
                    op[t].criteria)]
    /\ UNCHANGED <<entries, lock, heap, handles, pc, found, fired, observed, ret>>

with_target(t, target) ==
    /\ pc[t] = "builder"
    /\ "with_target" \in Methods(op[t].stage)
    /\ op' = [op EXCEPT ![t] =
                AssertionBuilder("NoCriteria",
                    Some(set_target(get_or_insert_default(op[t].matcher), target)),
                    op[t].criteria)]
    /\ UNCHANGED <<entries, lock, heap, handles, pc, found, fired, observed, ret>>

with_parent_name(t, name) ==
    /\ pc[t] = "builder"
    /\ "with_parent_name" \in Methods(op[t].stage)
    /\ op' = [op EXCEPT ![t] =
                AssertionBuilder("NoCriteria",
                    Some(set_parent_name(get_or_insert_default(op[t].matcher), name)),
                    op[t].criteria)]
    /\ UNCHANGED <<entries, lock, heap, handles, pc, found, fired, observed, ret>>

\* `if let Some(matcher) = self.matcher.as_mut() { matcher.add_field_exists(..) }`
with_span_field(t, field) ==
    /\ pc[t] = "builder"
    /\ "with_span_field" \in Methods(op[t].stage)
    /\ op' = [op EXCEPT ![t] =
                AssertionBuilder("NoCriteria",
                    IF op[t].matcher = None THEN None
                    ELSE Some(add_field_exists(op[t].matcher[1], field)),
                    op[t].criteria)]
    /\ UNCHANGED <<entries, lock, heap, handles, pc, found, fired, observed, ret>>

\* The sixteen criterion-adders (was_created .. was_closed_at_least), in
\* AssertionBuilder<NoCriteria> and in AssertionBuilder<Constrained>: each
\* pushes its criterion and returns an AssertionBuilder<Constrained>.
add_criterion(t, c) ==
    /\ pc[t] = "builder"
    /\ AdderOf(c.tag) \in Methods(op[t].stage)
    /\ op' = [op EXCEPT ![t] =
                AssertionBuilder("Constrained", op[t].matcher,
                                 Append(op[t].criteria, c))]
    /\ UNCHANGED <<entries, lock, heap, handles, pc, found, fired, observed, ret>>

\* AssertionBuilder<Constrained>::finalize on the builder b, which is the one
\* the thread holds if it built it step by step: it takes the matcher and
\* calls State::create_entry, which locks the map.  The Assertion is placed in
\* the first free slot.
finalize(t, b) ==
    /\ pc[t] = "idle" \/ (pc[t] = "builder" /\ op[t] = b)
    /\ "finalize" \in Methods(b.stage)
    /\ b.matcher # None
    /\ \E h \in Slots : handles[h] = None
    /\ lock = NoThread
    /\ lock' = t
    /\ pc' = [pc EXCEPT ![t] = "create_entry"]
    /\ op' = [op EXCEPT ![t] =
                [matcher |-> b.matcher[1],
                 criteria |-> b.criteria,
                 slot |-> CHOOSE h \in Slots :
                            handles[h] = None
                            /\ \A g \in 1..(h - 1) : handles[g] # None]]
    /\ UNCHANGED <<entries, heap, handles, found, fired, observed, ret>>

\* A faulty create_entry: `insert(matcher, Arc::new(..))`, which replaces the
\* allocation an equal matcher is mapped to.
create_entry_insert(t) ==
    /\ pc[t] = "create_entry"
    /\ LET m == op[t].matcher
           a == NewArc(heap)
           es == (m :> a) @@ entries
           hs == [handles EXCEPT ![op[t].slot] =
                    Some([matcher |-> m, entry_state |-> a,
                                  criteria |-> op[t].criteria])]
       IN /\ entries' = es
          /\ handles' = hs
          /\ heap' = Collect((a :> EntryState) @@ heap, Refs(es, hs, found))
          /\ observed' = IF DOMAIN entries = {} THEN Unseen(a) ELSE None
    /\ lock' = NoThread
    /\ pc' = [pc EXCEPT ![t] = "idle"]
    /\ op' = [op EXCEPT ![t] = None]
    /\ UNCHANGED <<found, fired, ret>>

\* State::create_entry under the lock (`entry(matcher).or_insert_with(..)`),
\* then finalize builds the Assertion around the returned Arc.
create_entry(t) ==
    /\ pc[t] = "create_entry"
    /\ LET m == op[t].matcher
           vacant == m \notin DOMAIN entries
           a == IF vacant THEN NewArc(heap) ELSE entries[m]
       IN /\ entries' = IF vacant THEN (m :> a) @@ entries ELSE entries
          /\ heap' = IF vacant THEN (a :> EntryState) @@ heap ELSE heap
          /\ observed' =
                IF ~vacant THEN observed
                ELSE IF DOMAIN entries = {} THEN Unseen(a)
                ELSE None
          /\ handles' = [handles EXCEPT ![op[t].slot] =
                            Some([matcher |-> m, entry_state |-> a,
                                  criteria |-> op[t].criteria])]
    /\ lock' = NoThread
    /\ pc' = [pc EXCEPT ![t] = "idle"]
    /\ op' = [op EXCEPT ![t] = None]
    /\ UNCHANGED <<found, fired, ret>>

\* A faulty Drop: the Assertion goes without calling remove_entry.
drop_forget(t, h) ==
    /\ pc[t] = "idle"
    /\ handles[h] # None
    /\ lock = NoThread
    /\ LET hs == [handles EXCEPT ![h] = None]
       IN /\ handles' = hs
          /\ heap' = Collect(heap, Refs(entries, hs, found))
    /\ UNCHANGED <<entries, lock, pc, op, found, fired, observed, ret>>

\* impl Drop for Assertion: drop calls State::remove_entry, which locks the map.
\* The Assertion is owned when it is dropped: nobody is evaluating it.
drop(t, h) ==
    /\ pc[t] = "idle"
    /\ handles[h] # None
    /\ \A u \in Threads : pc[u] \in {"try_assert", "assert"} => op[u].slot # h
    /\ lock = NoThread
    /\ lock' = t
    /\ pc' = [pc EXCEPT ![t] = "remove_entry"]
    /\ op' = [op EXCEPT ![t] = [slot |-> h]]
    /\ UNCHANGED <<entries, heap, handles, found, fired, observed, ret>>

\* State::remove_entry under the lock: the mapping of the matcher is removed,
\* whoever else holds its Arc.  Then the Assertion's fields are dropped.
remove_entry(t) ==
    /\ pc[t] = "remove_entry"
    /\ LET m == handles[op[t].slot][1].matcher
           es == [k \in (DOMAIN entries) \ {m} |-> entries[k]]
           hs == [handles EXCEPT ![op[t].slot] = None]
           refs == Refs(es, hs, found)
       IN /\ entries' = es
          /\ handles' = hs
          /\ heap' = Collect(heap, refs)
          /\ observed' = IF m \in DOMAIN entries THEN None ELSE observed
    /\ lock' = NoThread
    /\ pc' = [pc EXCEPT ![t] = "idle"]
    /\ op' = [op EXCEPT ![t] = None]
    /\ UNCHANGED <<found, fired, ret>>

\* What assert and try_assert hand back: which of the two it was and whether
\* every criterion passed (assert with ok = FALSE has panicked).
Returned(fn, ok) == Some([fn |-> fn, ok |-> ok])

\* A call of Assertion::try_assert or Assertion::assert on a handle that is not
\* being dropped.  op.snap and op.registered are history: the counters as they
\* were at the call, and whether the map then held the handle's entry.
evaluate_call(t, h, fn) ==
    /\ pc[t] = "idle"
    /\ Live(h)
    /\ pc' = [pc EXCEPT ![t] = fn]
    /\ op' = [op EXCEPT ![t] =
                [slot |-> h, i |-> 1, snap |-> heap[handles[h][1].entry_state],
                 registered |->
                    /\ handles[h][1].matcher \in DOMAIN entries
                    /\ entries[handles[h][1].matcher] = handles[h][1].entry_state]]
    /\ ret' = [ret EXCEPT ![t] = None]
    /\ UNCHANGED <<entries, lock, heap, handles, found, fired, observed>>

try_assert_call(t, h) == evaluate_call(t, h, "try_assert")
assert_call(t, h) == evaluate_call(t, h, "assert")

\* A faulty try_assert: `return true` on the first criterion that passes.
try_assert_any(t) ==
    /\ pc[t] = "try_assert"
    /\ LET h == op[t].slot
           cs == handles[h][1].criteria
           e == handles[h][1].entry_state
           i == op[t].i
       IN IF i > Len(cs) \/ criterion_try_assert(cs[i], heap, e)
          THEN /\ ret' = [ret EXCEPT ![t] = Returned("try_assert", i <= Len(cs))]
               /\ pc' = [pc EXCEPT ![t] = "idle"]
               /\ op' = [op EXCEPT ![t] = None]
          ELSE /\ op' = [op EXCEPT ![t].i = i + 1]
               /\ UNCHANGED <<pc, ret>>
    /\ UNCHANGED <<entries, lock, heap, handles, found, fired, observed>>

\* One turn of the `for criterion in &self.criteria` loop of
\* Assertion::try_assert: the criterion loads its counter; `return false` if it
\* does not hold, `true` after the last one.  No lock is taken.
try_assert(t) ==
    /\ pc[t] = "try_assert"
    /\ LET h == op[t].slot
           cs == handles[h][1].criteria
           e == handles[h][1].entry_state
           i == op[t].i
       IN IF i > Len(cs)
          THEN /\ ret' = [ret EXCEPT ![t] = Returned("try_assert", TRUE)]
               /\ pc' = [pc EXCEPT ![t] = "idle"]
               /\ op' = [op EXCEPT ![t] = None]
          ELSE IF ~criterion_try_assert(cs[i], heap, e)
          THEN /\ ret' = [ret EXCEPT ![t] = Returned("try_assert", FALSE)]
               /\ pc' = [pc EXCEPT ![t] = "idle"]
               /\ op' = [op EXCEPT ![t] = None]
          ELSE IF i = Len(cs)
          THEN /\ ret' = [ret EXCEPT ![t] = Returned("try_assert", TRUE)]
               /\ pc' = [pc EXCEPT ![t] = "idle"]
               /\ op' = [op EXCEPT ![t] = None]
          ELSE /\ op' = [op EXCEPT ![t].i = i + 1]
               /\ UNCHANGED <<pc, ret>>
    /\ UNCHANGED <<entries, lock, heap, handles, found, fired, observed>>

\* One turn of the loop of Assertion::assert: the criterion's assert! panics,
\* which ends the thread, or passes; the call returns after the last one.
assert(t) ==
    /\ pc[t] = "assert"
    /\ LET h == op[t].slot
           cs == handles[h][1].criteria
           e == handles[h][1].entry_state
           i == op[t].i
       IN IF i > Len(cs)
          THEN /\ ret' = [ret EXCEPT ![t] = Returned("assert", TRUE)]
               /\ pc' = [pc EXCEPT ![t] = "idle"]
               /\ op' = [op EXCEPT ![t] = None]
          ELSE IF criterion_assert(cs[i], heap, e) = "panic"
          THEN /\ ret' = [ret EXCEPT ![t] = Returned("assert", FALSE)]
               /\ pc' = [pc EXCEPT ![t] = "panicked"]
               /\ op' = [op EXCEPT ![t] = None]
          ELSE IF i = Len(cs)
          THEN /\ ret' = [ret EXCEPT ![t] = Returned("assert", TRUE)]
               /\ pc' = [pc EXCEPT ![t] = "idle"]
               /\ op' = [op EXCEPT ![t] = None]
          ELSE /\ op' = [op EXCEPT ![t].i = i + 1]
               /\ UNCHANGED <<pc, ret>>
    /\ UNCHANGED <<entries, lock, heap, handles, found, fired, observed>>

RECURSIVE Sum(_, _)
Sum(f, ts) ==
    IF ts = {} THEN 0
    ELSE LET t == CHOOSE x \in ts : TRUE IN f[t] + Sum(f, ts \ {t})

\* The builder of an assertion on m, as after the chain of setters that makes
\* m followed by was_created().
Built(m) == AssertionBuilder("Constrained", Some(m), <<Criterion("WasCreated", 0)>>)

Next ==
    \E t \in Threads :
        \/ \E span \in Spans : Sum(fired, Threads) < MaxFire /\ new_span(t, span)
        \/ \E span \in Spans : Sum(fired, Threads) < MaxFire /\ on_enter(t, span)
        \/ \E span \in Spans : Sum(fired, Threads) < MaxFire /\ on_exit(t, span)
        \/ \E span \in Spans : Sum(fired, Threads) < MaxFire /\ on_close(t, span)
        \/ get_entry(t)
        \/ track(t)
        \/ \E m \in Matchers : finalize(t, Built(m))
        \/ create_entry(t)
        \/ \E h \in Slots : drop(t, h)
        \/ remove_entry(t)

Spec == Init /\ [][Next]_vars

\* One assertion on spans named "checkout" stands, as after
\* build().with_name("checkout").was_created().finalize(), and the threads
\* fire hooks at it.
Checkout == SpanMatcher(Some("checkout"), None, None, <<>>)

InitHooks ==
    /\ entries = (Checkout :> 1)
    /\ lock = NoThread
    /\ heap = (1 :> EntryState)
    /\ handles = [h \in Slots |->
                    IF h = 1
                    THEN Some([matcher |-> Checkout, entry_state |-> 1,
                               criteria |-> <<Criterion("WasCreated", 0)>>])
                    ELSE None]
    /\ pc = [t \in Threads |-> "idle"]
    /\ op = [t \in Threads |-> None]
    /\ found = [t \in Threads |-> None]
    /\ fired = [t \in Threads |-> 0]
    /\ ret = [t \in Threads |-> None]
    /\ observed = Unseen(1)

NextHooks ==
    \E t \in Threads :
        \/ \E span \in Spans : fired[t] < PerThread /\ new_span(t, span)
        \/ \E span \in Spans : fired[t] < PerThread /\ on_enter(t, span)
        \/ \E span \in Spans : fired[t] < PerThread /\ on_exit(t, span)
        \/ \E span \in Spans : fired[t] < PerThread /\ on_close(t, span)
        \/ get_entry(t)
        \/ track(t)

SpecHooks == InitHooks /\ [][NextHooks]_vars

\* The criteria an Assertion can hold: the eight without an argument, and the
\* eight thresholds with n up to one more than any counter of a snapshot.
Tags0 ==
    {"WasCreated", "WasEntered", "WasExited", "WasClosed",
     "WasNotCreated", "WasNotEntered", "WasNotExited", "WasNotClosed"}
TagsN ==
    {"CreatedExactly", "EnteredExactly", "ExitedExactly", "ClosedExactly",
     "CreatedAtLeast", "EnteredAtLeast", "ExitedAtLeast", "ClosedAtLeast"}
AllCriteria ==
    {Criterion(tag, 0) : tag \in Tags0}
        \cup {Criterion(tag, n) : tag \in TagsN, n \in 0..(MaxCount + 1)}
PairCriteria ==
    {Criterion("WasCreated", 0), Criterion("WasNotEntered", 0),
     Criterion("ExitedExactly", 1), Criterion("ClosedAtLeast", 2)}
EvalLists ==
    {<<c>> : c \in AllCriteria} \cup {<<c, d>> : c, d \in PairCriteria}

\* One assertion on "checkout" stands, with any of the criteria lists and any
\* counter values, and the threads evaluate it with assert and try_assert.
InitEval ==
    /\ entries = (Checkout :> 1)
    /\ lock = NoThread
    /\ \E c \in [Kinds -> 0..MaxCount] : heap = (1 :> c)
    /\ \E cs \in EvalLists :
            handles = [h \in Slots |->
                        IF h = 1
                        THEN Some([matcher |-> Checkout, entry_state |-> 1,
                                   criteria |-> cs])
                        ELSE None]
    /\ pc = [t \in Threads |-> "idle"]
    /\ op = [t \in Threads |-> None]
    /\ found = [t \in Threads |-> None]
    /\ fired = [t \in Threads |-> 0]
    /\ ret = [t \in Threads |-> None]
    /\ observed = None

NextEval ==
    \E t \in Threads :
        \/ \E h \in Slots : try_assert_call(t, h)
        \/ try_assert(t)
        \/ \E h \in Slots : assert_call(t, h)
        \/ assert(t)

SpecEval == InitEval /\ [][NextEval]_vars

\* Two assertions stand whose matchers both match the span "checkout" of
\* target "app": one on the name "checkout", with any of a few criteria lists,
\* and one on the target "app".  The threads fire hooks and poll try_assert.
TargetApp == SpanMatcher(None, Some("app"), None, <<>>)
PollLists ==
    { <<Criterion("WasNotEntered", 0)>>,
      <<Criterion("WasNotEntered", 0), Criterion("CreatedExactly", 1)>>,
      <<Criterion("CreatedAtLeast", 1), Criterion("WasExited", 0)>> }

InitPoll ==
    /\ entries = (Checkout :> 1) @@ (TargetApp :> 2)
    /\ lock = NoThread
    /\ heap = (1 :> EntryState) @@ (2 :> EntryState)
    /\ \E cs \in PollLists :
            handles = [h \in Slots |->
                        IF h = 1
                        THEN Some([matcher |-> Checkout, entry_state |-> 1,
                                   criteria |-> cs])
                        ELSE IF h = 2
                        THEN Some([matcher |-> TargetApp, entry_state |-> 2,
                                   criteria |-> <<Criterion("WasCreated", 0)>>])
                        ELSE None]
    /\ pc = [t \in Threads |-> "idle"]
    /\ op = [t \in Threads |-> None]
    /\ found = [t \in Threads |-> None]
    /\ fired = [t \in Threads |-> 0]
    /\ ret = [t \in Threads |-> None]
    /\ observed = None

NextPoll ==
    \E t \in Threads :
        \/ \E span \in Spans : Sum(fired, Threads) < MaxFire /\ new_span(t, span)
        \/ \E span \in Spans : Sum(fired, Threads) < MaxFire /\ on_enter(t, span)
        \/ \E span \in Spans : Sum(fired, Threads) < MaxFire /\ on_exit(t, span)
        \/ \E span \in Spans : Sum(fired, Threads) < MaxFire /\ on_close(t, span)
        \/ get_entry(t)
        \/ track(t)
        \/ \E h \in Slots : try_assert_call(t, h)
        \/ try_assert(t)

SpecPoll == InitPoll /\ [][NextPoll]_vars

\* Assertions are built step by step, one builder at a time: build(), the
\* setters and adders the builder's stage has, finalize.
BuildNames == {"checkout"}
BuildTargets == {"app"}
BuildParents == {"checkout"}
BuildFields == {"user", "sku"}
BuildCriteria == {Criterion("WasCreated", 0), Criterion("EnteredAtLeast", 1)}

NextBuild ==
    \E t \in Threads :
        \/ /\ \A u \in Threads \ {t} : pc[u] = "idle"
           /\ \E h \in Slots : handles[h] = None
           /\ build(t)
        \/ \E name \in BuildNames : with_name(t, name)
        \/ \E target \in BuildTargets : with_target(t, target)
        \/ \E name \in BuildParents : with_parent_name(t, name)
        \/ \E field \in BuildFields :
                /\ pc[t] = "builder"
                /\ op[t].matcher # None
                /\ Len(op[t].matcher[1].fields) < MaxFields
                /\ with_span_field(t, field)
        \/ \E c \in BuildCriteria :
                /\ pc[t] = "builder"
                /\ Len(op[t].criteria) < MaxCriteria
                /\ add_criterion(t, c)
        \/ pc[t] = "builder" /\ finalize(t, op[t])
        \/ create_entry(t)

SpecBuild == Init /\ [][NextBuild]_vars

\* Every matcher a builder can make from a few names, targets and fields
\* stands alone in the registry, and a hook is fired on every span made of a
\* few names, targets, ancestor chains and field sets, and on the spans of the
\* chain root -> A -> B -> C.
MatchNames == {"A", "B"}
MatchTargets == {"app", "lib"}
MatchFields == {"user", "sku"}

SeqsUpTo(S, n) == UNION {[1..k -> S] : k \in 0..n}

AllMatchers ==
    {SpanMatcher(n, t, p, f) :
        n \in {None} \cup {Some(x) : x \in MatchNames},
        t \in {None} \cup {Some(x) : x \in MatchTargets},
        p \in {None} \cup {Some(x) : x \in MatchNames},
        f \in SeqsUpTo(MatchFields, MaxFields)}
BuildableMatchers == {m \in AllMatchers : m.name # None \/ m.target # None}

ChainSpans ==
    { SpanRef("root", "app", <<>>, {}),
      SpanRef("A", "app", <<"root">>, {}),
      SpanRef("B", "app", <<"A", "root">>, {}),
      SpanRef("C", "app", <<"B", "A", "root">>, {}) }
AllSpans ==
    {SpanRef(n, t, ps, fs) :
        n \in MatchNames, t \in MatchTargets,
        ps \in SeqsUpTo(MatchNames, MaxDepth), fs \in SUBSET MatchFields}
        \cup ChainSpans

InitMatch ==
    /\ \E m \in BuildableMatchers :
            /\ entries = (m :> 1)
            /\ handles = [h \in Slots |->
                            IF h = 1
                            THEN Some([matcher |-> m, entry_state |-> 1,
                                       criteria |-> <<Criterion("WasCreated", 0)>>])
                            ELSE None]
    /\ lock = NoThread
    /\ heap = (1 :> EntryState)
    /\ pc = [t \in Threads |-> "idle"]
    /\ op = [t \in Threads |-> None]
    /\ found = [t \in Threads |-> None]
    /\ fired = [t \in Threads |-> 0]
    /\ ret = [t \in Threads |-> None]
    /\ observed = Unseen(1)

NextMatch ==
    \E t \in Threads :
        \/ Sum(fired, Threads) < MatchFire /\ \E span \in AllSpans : new_span(t, span)
        \/ Sum(fired, Threads) < MatchFire /\ \E span \in AllSpans : on_enter(t, span)
        \/ Sum(fired, Threads) < MatchFire /\ \E span \in AllSpans : on_exit(t, span)
        \/ Sum(fired, Threads) < MatchFire /\ \E span \in AllSpans : on_close(t, span)
        \/ get_entry(t)
        \/ track(t)

SpecMatch == InitMatch /\ [][NextMatch]_vars

\* Two assertions on "checkout" stand, as after two finalize calls with equal
\* matchers: they share one entry.  The threads fire hooks, poll try_assert
\* and drop the assertions.
InitShared ==
    /\ entries = (Checkout :> 1)
    /\ lock = NoThread
    /\ heap = (1 :> EntryState)
    /\ handles = [h \in Slots |->
                    IF h = 1
                    THEN Some([matcher |-> Checkout, entry_state |-> 1,
                               criteria |-> <<Criterion("WasCreated", 0),
                                              Criterion("WasNotClosed", 0)>>])
                    ELSE IF h = 2
                    THEN Some([matcher |-> Checkout, entry_state |-> 1,
                               criteria |-> <<Criterion("WasCreated", 0)>>])
                    ELSE None]
    /\ pc = [t \in Threads |-> "idle"]
    /\ op = [t \in Threads |-> None]
    /\ found = [t \in Threads |-> None]
    /\ fired = [t \in Threads |-> 0]
    /\ ret = [t \in Threads |-> None]
    /\ observed = Unseen(1)

NextShared ==
    \E t \in Threads :
        \/ \E span \in Spans : Sum(fired, Threads) < MaxFire /\ new_span(t, span)
        \/ \E span \in Spans : Sum(fired, Threads) < MaxFire /\ on_enter(t, span)
        \/ \E span \in Spans : Sum(fired, Threads) < MaxFire /\ on_exit(t, span)
        \/ \E span \in Spans : Sum(fired, Threads) < MaxFire /\ on_close(t, span)
        \/ get_entry(t)
        \/ track(t)
        \/ \E h \in Slots : try_assert_call(t, h)
        \/ try_assert(t)
        \/ \E h \in Slots : drop(t, h)
        \/ remove_entry(t)

SpecShared == InitShared /\ [][NextShared]_vars

\* ------------------------------------------------------- waiting for the map
\* The same operations with the wait at `self.entries.lock()` made a state of
\* its own: a call brings the thread to the lock() of get_entry, create_entry
\* or remove_entry, where it blocks until the mutex is free.

\* A hook resolves its span and calls State::get_entry.
hook_begin(t, hook, span) ==
    /\ pc[t] = "idle"
    /\ pc' = [pc EXCEPT ![t] = "get_entry"]
    /\ op' = [op EXCEPT ![t] = [hook |-> hook, span |-> span]]
    /\ fired' = [fired EXCEPT ![t] = @ + 1]
    /\ UNCHANGED <<entries, lock, heap, handles, found, observed, ret>>

\* finalize takes the matcher and calls State::create_entry.  The Assertion
\* will be placed in the first slot that is free and that no other finalize
\* in progress will fill.
finalize_begin(t, b) ==
    /\ pc[t] = "idle" \/ (pc[t] = "builder" /\ op[t] = b)
    /\ "finalize" \in Methods(b.stage)
    /\ b.matcher # None
    /\ LET free == {h \in Slots :
                        /\ handles[h] = None
                        /\ \A u \in Threads :
                                pc[u] = "create_entry" => op[u].slot # h}
       IN /\ free # {}
          /\ op' = [op EXCEPT ![t] =
                        [matcher |-> b.matcher[1],
                         criteria |-> b.criteria,
                         slot |-> CHOOSE h \in free : \A g \in free : h <= g]]
    /\ pc' = [pc EXCEPT ![t] = "create_entry"]
    /\ UNCHANGED <<entries, lock, heap, handles, found, fired, observed, ret>>

\* impl Drop for Assertion: drop calls State::remove_entry.  The Assertion is
\* owned when it is dropped: nobody is evaluating it or dropping it already.
drop_begin(t, h) ==
    /\ pc[t] = "idle"
    /\ Live(h)
    /\ \A u \in Threads : pc[u] \in {"try_assert", "assert"} => op[u].slot # h
    /\ pc' = [pc EXCEPT ![t] = "remove_entry"]
    /\ op' = [op EXCEPT ![t] = [slot |-> h]]
    /\ UNCHANGED <<entries, lock, heap, handles, found, fired, observed, ret>>

\* `self.entries.lock().unwrap()`: the thread gets the mutex once it is free.
entries_lock(t) ==
    /\ pc[t] \in {"get_entry", "create_entry", "remove_entry"}
    /\ lock = NoThread
    /\ lock' = t
    /\ UNCHANGED <<entries, heap, handles, pc, op, found, fired, observed, ret>>

\* The steps of thread t: it fires the given hooks on a span named "checkout",
\* evaluates assertions with try_assert and assert, drops them and finalizes
\* new ones on "checkout".
Operate(t, hooks) ==
    \/ /\ Sum(fired, Threads) < MaxFire
       /\ \E hook \in hooks : hook_begin(t, hook, SpanRef("checkout", "app", <<>>, {}))
    \/ entries_lock(t)
    \/ lock = t /\ get_entry(t)
    \/ track(t)
    \/ finalize_begin(t, Built(Checkout))
    \/ lock = t /\ create_entry(t)
    \/ \E h \in Slots : drop_begin(t, h)
    \/ lock = t /\ remove_entry(t)
    \/ \E h \in Slots : try_assert_call(t, h)
    \/ try_assert(t)
    \/ \E h \in Slots : assert_call(t, h)
    \/ assert(t)

\* Two assertions on "checkout" share one entry and the threads fire the four
\* hooks.
NextWait == \E t \in Threads : Operate(t, Hooks)

SpecWait == InitShared /\ [][NextWait]_vars

\* What a thread does next inside an operation it has started, the wait for
\* the mutex apart.
Proceed(t) ==
    \/ lock = t /\ get_entry(t)
    \/ track(t)
    \/ lock = t /\ create_entry(t)
    \/ lock = t /\ remove_entry(t)
    \/ try_assert(t)
    \/ assert(t)

\* Fair scheduling: a thread that can proceed is eventually run, and so is a
\* thread at a lock() whose mutex stays free.  std::sync::Mutex promises no
\* more: it does not hand the mutex to the thread that has waited longest.
SpecFair ==
    /\ InitShared
    /\ [][NextWait]_vars
    /\ \A t \in Threads : WF_vars(Proceed(t)) /\ WF_vars(entries_lock(t))

\* ================================================================== claims
\* The counters a handle reads, by kind.
Num(hp, e, kind) ==
    CASE kind = "created" -> num_created(hp, e)
      [] kind = "entered" -> num_entered(hp, e)
      [] kind = "exited" -> num_exited(hp, e)
      [] kind = "closed" -> num_closed(hp, e)

MatcherOf(h) == handles[h][1].matcher
EntryOf(h) == handles[h][1].entry_state

\* Thread t leaves its hook in this step: the step in which the hook tracks.
HookReturns(t) == pc[t] = "track" /\ pc'[t] = "idle"
NoHookInFlight == \A t \in Threads : pc[t] \notin {"get_entry", "track"}

\* C1: when a hook returns, every entry whose matcher matched the hook's span at
\* the lookup has had the counter of the hook's kind incremented, all of them
\* when several matched.
C1_EveryMatchingEntryCounted ==
    [][\A t \in Threads :
          HookReturns(t) =>
            \A a \in op[t].hits \cap DOMAIN heap \cap DOMAIN heap' :
                Num(heap', a, KindOf(op[t].hook))
                    = Num(heap, a, KindOf(op[t].hook)) + 1]_vars

\* C2: two live handles with equal matchers read the same four counters.
C2_EqualMatchersSameCounters ==
    \A h1, h2 \in Slots :
        (Live(h1) /\ Live(h2) /\ MatcherOf(h1) = MatcherOf(h2))
            => \A k \in Kinds : Num(heap, EntryOf(h1), k) = Num(heap, EntryOf(h2), k)

\* C3: while the map has held one entry only since that entry was inserted and
\* no hook is in flight, a live handle on that entry reads, for each kind, the
\* number of hooks of that kind fired on spans its matcher matches.
C3_CountersEqualMatchingHooks ==
    (observed # None /\ NoHookInFlight) =>
        \A h \in Slots :
            (Live(h) /\ EntryOf(h) = observed[1].entry
                    /\ DOMAIN entries = {MatcherOf(h)})
                => \A k \in Kinds : Num(heap, EntryOf(h), k) = observed[1].seen[k]

\* Two created and one closed on "checkout": was_created_exactly(2) and
\* was_closed_exactly(1) pass, was_entered fails.
C3_Witness ==
    /\ observed # None
    /\ NoHookInFlight
    /\ Live(1)
    /\ EntryOf(1) = observed[1].entry
    /\ observed[1].seen = [created |-> 2, entered |-> 0, exited |-> 0, closed |-> 1]
    /\ criterion_try_assert(Criterion("CreatedExactly", 2), heap, EntryOf(1))
    /\ criterion_try_assert(Criterion("ClosedExactly", 1), heap, EntryOf(1))
    /\ ~criterion_try_assert(Criterion("WasEntered", 0), heap, EntryOf(1))

\* C4: a hook on a span that a registered matcher does not match leaves all
\* four counters of that matcher's entry unchanged.
C4_NonMatchingEntryUntouched ==
    [][\A t \in Threads :
          HookReturns(t) =>
            \A m \in DOMAIN entries :
                ~matches(m, op[t].span) => heap'[entries[m]] = heap[entries[m]]]_vars

\* Two entries with different matchers; a hook has counted in one, the other
\* still reads zero.
C4_Witness ==
    \E m1, m2 \in DOMAIN entries :
        /\ m1 # m2
        /\ heap[entries[m1]] # EntryState
        /\ heap[entries[m2]] = EntryState

\* C5: once a handle is disposed its matcher has no entry, and a handle
\* finalized for a matcher that has no entry gets a new allocation whose four
\* counters are zero.
C5_RebuildStartsAtZero ==
    [][\A h \in Slots :
          /\ (handles[h] # None /\ handles'[h] = None)
                => MatcherOf(h) \notin DOMAIN entries'
          /\ (handles[h] = None /\ handles'[h] # None
                    /\ handles'[h][1].matcher \notin DOMAIN entries)
                => /\ handles'[h][1].entry_state \notin DOMAIN heap
                   /\ heap'[handles'[h][1].entry_state] = EntryState]_vars

\* Two handles shared a matcher and counted; one was disposed and the matcher
\* finalized again: the new handle reads zero, the old counts live on apart.
C5_Witness ==
    \E h1, h2 \in Slots :
        /\ Live(h1) /\ Live(h2)
        /\ MatcherOf(h1) = MatcherOf(h2)
        /\ EntryOf(h1) # EntryOf(h2)
        /\ heap[EntryOf(h1)] # EntryState
        /\ heap[EntryOf(h2)] = EntryState
        /\ entries[MatcherOf(h2)] = EntryOf(h2)

\* C6: while a handle is live, its matcher is registered and mapped to the
\* handle's own counters.
C6_LiveHandleStaysRegistered ==
    \A h \in Slots :
        Live(h) => /\ MatcherOf(h) \in DOMAIN entries
                   /\ entries[MatcherOf(h)] = EntryOf(h)

\* C7: the created counter and the created-hooks still between lookup and
\* track add up to the created-hooks whose lookup matched; once every thread
\* has fired PerThread hooks and all were matching created events, num_created
\* is NumThreads * PerThread.
TrackingCreated(a) ==
    {t \in Threads : pc[t] = "track" /\ found[t] = Some(a) /\ op[t].hook = "new_span"}

C7_NoCreatedIncrementLost ==
    observed # None =>
        LET a == observed[1].entry
        IN /\ num_created(heap, a) + Cardinality(TrackingCreated(a))
                = observed[1].seen.created
           /\ ((\A t \in Threads : pc[t] = "idle" /\ fired[t] = PerThread)
                    /\ observed[1].seen.created = NumThreads * PerThread)
                => num_created(heap, a) = NumThreads * PerThread

C7_Witness ==
    /\ \A t \in Threads : pc[t] = "idle" /\ fired[t] = PerThread
    /\ observed # None
    /\ num_created(heap, observed[1].entry) = NumThreads * PerThread

\* C8: only the holder of the lock is inside the map, and a create_entry keeps
\* every mapping there was: its caller gets the mapped allocation of its
\* matcher, the one already there if there was one and a new one otherwise.
InsideMap == {"get_entry", "create_entry", "remove_entry"}

C8_CreateEntryKeepsEveryEntry ==
    [][/\ \A t \in Threads : pc[t] \in InsideMap => lock = t
       /\ \A h \in Slots :
            (handles[h] = None /\ handles'[h] # None) =>
                LET m == handles'[h][1].matcher
                    a == handles'[h][1].entry_state
                IN /\ m \in DOMAIN entries' /\ entries'[m] = a
                   /\ \A k \in DOMAIN entries :
                        k \in DOMAIN entries' /\ entries'[k] = entries[k]
                   /\ m \notin DOMAIN entries => a \notin DOMAIN heap]_vars

\* Two handles finalized with equal matchers share the one mapped allocation.
C8_Witness ==
    /\ Live(1) /\ Live(2)
    /\ MatcherOf(1) = MatcherOf(2)
    /\ EntryOf(1) = EntryOf(2)
    /\ entries[MatcherOf(1)] = EntryOf(1)

\* C9: across every step, no counter of an allocation that stays live, and no
\* counter read through a handle that stays, is smaller than before.
C9_CountersNeverDecrease ==
    [][/\ \A a \in DOMAIN heap \cap DOMAIN heap' :
            \A k \in Kinds : Num(heap', a, k) >= Num(heap, a, k)
       /\ \A h \in Slots :
            (handles[h] # None /\ handles'[h] # None) =>
                \A k \in Kinds :
                    Num(heap', handles'[h][1].entry_state, k)
                        >= Num(heap, EntryOf(h), k)]_vars

C9_Witness ==
    \E h \in Slots : Live(h) /\ \E k \in Kinds : Num(heap, EntryOf(h), k) = 2

\* C10: a returning hook adds exactly one to the counter of its own kind on the
\* entry it found and changes no other counter; a hook whose span matched no
\* registered matcher changes no counter.
C10_HookAddsOneToItsOwnCounter ==
    [][\A t \in Threads :
          HookReturns(t) =>
            /\ \A a \in DOMAIN heap' :
                heap'[a] =
                    IF found[t] = Some(a)
                    THEN [heap[a] EXCEPT ![KindOf(op[t].hook)] = @ + 1]
                    ELSE heap[a]
            /\ op[t].hits = {} => heap' = heap]_vars

\* on_exit has counted once in an entry that new_span had counted in.
C10_Witness ==
    \E a \in DOMAIN heap :
        heap[a] = [created |-> 1, entered |-> 0, exited |-> 1, closed |-> 0]

\* ------------------------------------------------- evaluation (C11 .. C14)
\* What each criterion means, by the table of the builder's documentation: the
\* counter it reads and the test it makes.
KindOfTag(tag) ==
    CASE tag \in {"WasCreated", "WasNotCreated", "CreatedExactly", "CreatedAtLeast"}
            -> "created"
      [] tag \in {"WasEntered", "WasNotEntered", "EnteredExactly", "EnteredAtLeast"}
            -> "entered"
      [] tag \in {"WasExited", "WasNotExited", "ExitedExactly", "ExitedAtLeast"}
            -> "exited"
      [] tag \in {"WasClosed", "WasNotClosed", "ClosedExactly", "ClosedAtLeast"}
            -> "closed"

Holds(c, counters) ==
    LET count == counters[KindOfTag(c.tag)]
    IN CASE c.tag \in {"WasCreated", "WasEntered", "WasExited", "WasClosed"}
                -> count # 0
         [] c.tag \in {"WasNotCreated", "WasNotEntered", "WasNotExited", "WasNotClosed"}
                -> count = 0
         [] c.tag \in {"CreatedExactly", "EnteredExactly", "ExitedExactly",
                        "ClosedExactly"}
                -> count = c.n
         [] c.tag \in {"CreatedAtLeast", "EnteredAtLeast", "ExitedAtLeast",
                        "ClosedAtLeast"}
                -> count >= c.n

AllHold(cs, counters) == \A i \in DOMAIN cs : Holds(cs[i], counters)

\* A criterion that, once it holds, holds for ever: counters only grow.
Lasting(c) == c.tag \notin {"WasNotCreated", "WasNotEntered", "WasNotExited",
                            "WasNotClosed", "CreatedExactly", "EnteredExactly",
                            "ExitedExactly", "ClosedExactly"}

CriteriaOf(h) == handles[h][1].criteria
TryAssertStep(t) == pc[t] = "try_assert" /\ (pc'[t] # pc[t] \/ op'[t] # op[t])
TryAssertReturns(t) == pc[t] = "try_assert" /\ pc'[t] = "idle"

\* C11: try_assert changes no counter, no allocation, no handle and not the
\* registry map, however often it is called.  When it returns false, the
\* criterion it stopped at does not hold for the current counters; when it
\* returns true, the last criterion and every criterion that cannot stop
\* holding hold for the current counters; and when the counters of the
\* handle's entry are as they were when the call began, it returns true if
\* every stored criterion holds for them and false otherwise.
C11_TryAssertPure ==
    [][\A t \in Threads :
          /\ (TryAssertStep(t) \/ (pc[t] = "idle" /\ pc'[t] = "try_assert"))
                => /\ heap' = heap
                   /\ entries' = entries
                   /\ handles' = handles
                   /\ lock' = lock
          /\ TryAssertReturns(t) =>
                LET h == op[t].slot
                    cs == CriteriaOf(h)
                    now == heap[EntryOf(h)]
                    ok == ret'[t][1].ok
                IN /\ ret'[t][1].fn = "try_assert"
                   /\ ~ok => ~Holds(cs[op[t].i], now)
                   /\ ok => /\ Holds(cs[Len(cs)], now)
                             /\ \A i \in DOMAIN cs : Lasting(cs[i]) => Holds(cs[i], now)
                   /\ now = op[t].snap => (ok <=> AllHold(cs, now))]_vars

\* Polled again and again as the counters grow: a handle with
\* created_at_least(1) and was_exited has answered true, after hooks counted.
C11_Witness ==
    /\ CriteriaOf(1) = <<Criterion("CreatedAtLeast", 1), Criterion("WasExited", 0)>>
    /\ heap[EntryOf(1)] = [created |-> 1, entered |-> 0, exited |-> 1, closed |-> 0]
    /\ ret[1] = Returned("try_assert", TRUE)
    /\ ret[2] = Returned("try_assert", FALSE)

\* C11 as first stated: whenever try_assert returns, it returns true if every
\* stored criterion holds for the counters as they are at the return, and
\* false otherwise; and no step of it changes a counter or the registry map.
C11_TrueIffAllHoldNow ==
    [][\A t \in Threads :
          /\ TryAssertStep(t) => heap' = heap /\ entries' = entries
          /\ TryAssertReturns(t) =>
                (ret'[t][1].ok <=> AllHold(CriteriaOf(op[t].slot),
                                           heap[EntryOf(op[t].slot)]))]_vars

\* C12: on one snapshot of the counters, assert panics exactly when try_assert
\* returns false and returns normally exactly when try_assert returns true,
\* for every criteria list; a thread has panicked exactly when its assert
\* failed.
C12_AssertAgreesWithTryAssert ==
    /\ \A t, u \in Threads :
            (ret[t] # None /\ ret[u] # None
                    /\ ret[t][1].fn = "assert" /\ ret[u][1].fn = "try_assert")
                => ret[t][1].ok = ret[u][1].ok
    /\ \A t \in Threads :
            pc[t] = "panicked" <=> ret[t] = Returned("assert", FALSE)

\* was_created passed and exited_exactly(1) failed: try_assert answered false
\* in one thread, assert panicked in the other.
C12_Witness ==
    /\ CriteriaOf(1) = <<Criterion("WasCreated", 0), Criterion("ExitedExactly", 1)>>
    /\ ret[1] = Returned("try_assert", FALSE)
    /\ pc[2] = "panicked"

\* C13: an evaluation passes exactly when every criterion of the list holds by
\* the table: _exactly(n) when its counter equals n, _at_least(n) when it is at
\* least n, was_X when it is not zero, was_not_X when it is zero, each on the
\* counter of its own kind.
C13_ThresholdSemantics ==
    \A t \in Threads :
        ret[t] # None => (ret[t][1].ok <=> AllHold(CriteriaOf(1), heap[EntryOf(1)]))

\* entered_at_least(0) passes on a counter that is zero, for try_assert and
\* for assert.
C13_Witness ==
    /\ CriteriaOf(1) = <<Criterion("EnteredAtLeast", 0)>>
    /\ heap[EntryOf(1)].entered = 0
    /\ ret[1] = Returned("try_assert", TRUE)
    /\ ret[2] = Returned("assert", TRUE)

\* C14: a handle whose only criterion is was_not_entered passes while its
\* entered count is zero; and once an on_enter hook has returned whose span
\* the matcher of a live handle matches, was_not_entered does not hold for that
\* handle, and an evaluation of was_not_entered fails whenever the count is not
\* zero.
C14_WasNotEnteredFailsAfterEnter ==
    [][\A t \in Threads :
          /\ (HookReturns(t) /\ op[t].hook = "on_enter") =>
                \A h \in Slots :
                    (Live(h) /\ matches(MatcherOf(h), op[t].span))
                        => ~Holds(Criterion("WasNotEntered", 0), heap'[EntryOf(h)])
          /\ TryAssertReturns(t) =>
                LET h == op[t].slot
                IN /\ (CriteriaOf(h) = <<Criterion("WasNotEntered", 0)>>
                            /\ num_entered(heap, EntryOf(h)) = 0)
                        => ret'[t][1].ok
                   /\ (CriteriaOf(h)[op[t].i] = Criterion("WasNotEntered", 0)
                            /\ num_entered(heap, EntryOf(h)) # 0)
                        => ~ret'[t][1].ok]_vars

\* ---------------------------------------------------- builder (C15, C16, C19)
Building(t) == pc[t] = "builder"
\* The same fields, added in any order.
SameFields(f, g) ==
    \A x \in BuildFields :
        Cardinality({i \in DOMAIN f : f[i] = x}) = Cardinality({i \in DOMAIN g : g[i] = x})

\* C15: a builder starts in NoMatcher with no matcher and no criteria; it is in
\* NoCriteria only after a matcher-setter, with a matcher and no criteria; it
\* is in Constrained only after a criterion was added to a builder that had a
\* matcher; no criterion is added in NoMatcher; and finalize is called only on
\* a Constrained builder.
C15_FinalizeOnlyFromConstrained ==
    [][\A t \in Threads :
          /\ (Building(t)' /\ op'[t].stage = "NoMatcher")
                => /\ pc[t] = "idle"
                   /\ op'[t].matcher = None /\ op'[t].criteria = <<>>
          /\ (Building(t)' /\ op'[t].stage = "NoCriteria")
                => /\ Building(t) /\ op[t].stage \in {"NoMatcher", "NoCriteria"}
                   /\ op'[t].matcher # None /\ op'[t].criteria = <<>>
          /\ (Building(t)' /\ op'[t].stage = "Constrained")
                => /\ Building(t) /\ op[t].stage \in {"NoCriteria", "Constrained"}
                   /\ op[t].matcher # None
                   /\ op'[t].matcher # None /\ op'[t].criteria # <<>>
          /\ (Building(t) /\ Building(t)' /\ op'[t].criteria # op[t].criteria)
                => op[t].stage # "NoMatcher"
          /\ (Building(t) /\ pc'[t] = "create_entry")
                => /\ op[t].stage = "Constrained"
                   /\ op'[t].criteria # <<>>]_vars

\* An assertion finalized from a builder that was given a name, a parent name
\* and two criteria.
C15_Witness ==
    \E h \in Slots :
        /\ Live(h)
        /\ MatcherOf(h).name # None
        /\ MatcherOf(h).parent_name # None
        /\ Len(CriteriaOf(h)) = 2

\* C16: a builder in the Constrained stage can be given a name, a target, a
\* parent name or a required field, and any criterion.
C16_ConstrainedKeepsSetters ==
    \A t \in Threads :
        (Building(t) /\ op[t].stage = "Constrained") =>
            /\ Setters \subseteq Methods(op[t].stage)
            /\ Adders \subseteq Methods(op[t].stage)
            /\ \E name \in BuildNames : ENABLED with_name(t, name)
            /\ \E target \in BuildTargets : ENABLED with_target(t, target)
            /\ \E name \in BuildParents : ENABLED with_parent_name(t, name)
            /\ \E field \in BuildFields : ENABLED with_span_field(t, field)
            /\ \E c \in BuildCriteria : ENABLED add_criterion(t, c)

\* C19: two live handles whose matchers have the same name, target and parent
\* name and require the same set of fields, in whatever order the fields were
\* added, are backed by the same counters.
C19_FieldOrderIrrelevant ==
    \A h1, h2 \in Slots :
        (/\ Live(h1) /\ Live(h2)
         /\ MatcherOf(h1).name = MatcherOf(h2).name
         /\ MatcherOf(h1).target = MatcherOf(h2).target
         /\ MatcherOf(h1).parent_name = MatcherOf(h2).parent_name
         /\ SameFields(MatcherOf(h1).fields, MatcherOf(h2).fields))
            => EntryOf(h1) = EntryOf(h2)

\* ------------------------------------------------------- matching (C17, C18)
\* The lookup of thread t returns in this step.
LookupReturns(t) == pc[t] = "get_entry" /\ pc'[t] = "track"

\* C17: with one matcher registered, the lookup of a hook finds its entry
\* exactly when the name is unset or is the span's name, the target is unset
\* or is the span's target, the parent name is unset or is the name of some
\* ancestor of the span, and every required field is among the span's fields.
C17_MatchesIsTheConjunction ==
    [][\A t \in Threads :
          LookupReturns(t) =>
            \A m \in DOMAIN entries :
                LET span == op[t].span
                IN (found'[t] = Some(entries[m])) <=>
                        /\ (m.name = None \/ span.name = m.name[1])
                        /\ (m.target = None \/ span.target = m.target[1])
                        /\ (m.parent_name = None
                                \/ \E i \in DOMAIN span.parents :
                                        span.parents[i] = m.parent_name[1])
                        /\ \A i \in DOMAIN m.fields : m.fields[i] \in span.fields]_vars

\* A matcher with name, target, parent name and two fields has matched a span.
C17_Witness ==
    \E t \in Threads : \E m \in DOMAIN entries :
        /\ pc[t] = "track" /\ found[t] = Some(entries[m])
        /\ m.name # None /\ m.target # None /\ m.parent_name # None
        /\ Len(m.fields) = 2
        /\ Len(op[t].span.parents) = 2
        /\ op[t].span.parents[1] # m.parent_name[1]

\* C18: a matcher with a parent name matches only a span one of whose
\* ancestors, at any depth, has that name; the span's own name does not count
\* and a span without a parent is never matched.  On the chain
\* root -> A -> B -> C, the matcher on target "app" with parent name "A"
\* matches B and C and neither A nor root.
ParentA == SpanMatcher(None, Some("app"), Some("A"), <<>>)

C18_StrictAncestorsOnly ==
    [][\A t \in Threads :
          LookupReturns(t) =>
            \A m \in DOMAIN entries :
                LET span == op[t].span
                    hit == found'[t] = Some(entries[m])
                IN m.parent_name # None =>
                    /\ hit => \E i \in DOMAIN span.parents :
                                    span.parents[i] = m.parent_name[1]
                    /\ span.parents = <<>> => ~hit
                    /\ (span.name = m.parent_name[1]
                            /\ \A i \in DOMAIN span.parents :
                                    span.parents[i] # span.name)
                        => ~hit
                    /\ (m = ParentA /\ span \in ChainSpans)
                        => (hit <=> span.name \in {"B", "C"})]_vars

\* The matcher with parent name "A" has matched C, whose grandparent is A.
C18_Witness ==
    \E t \in Threads :
        /\ pc[t] = "track"
        /\ DOMAIN entries = {ParentA}
        /\ found[t] = Some(entries[ParentA])
        /\ op[t].span = SpanRef("C", "app", <<"B", "A", "root">>, {})

\* ------------------------------------------------------- removal (C20)
\* Thread t leaves remove_entry, and with it the drop of its Assertion.
RemoveReturns(t) == pc[t] = "remove_entry" /\ pc'[t] = "idle"

\* C20: remove_entry never fails; on a matcher that has no entry it leaves the
\* map as it is; it changes no counter of an allocation that stays, and every
\* Assertion that stays still holds its allocation.  A call of try_assert on a
\* handle whose entry is no longer in the map still returns: false at a
\* criterion that fails on the handle's counters, and, the counters unchanged
\* during the call, true exactly when every criterion holds on them.
C20_RemoveAbsentIsNoOp ==
    [][\A t \in Threads :
          /\ pc[t] = "remove_entry" => ENABLED remove_entry(t)
          /\ RemoveReturns(t) =>
                /\ MatcherOf(op[t].slot) \notin DOMAIN entries => entries' = entries
                /\ \A a \in DOMAIN heap' : a \in DOMAIN heap /\ heap'[a] = heap[a]
                /\ \A h \in Slots \ {op[t].slot} :
                        handles[h] # None =>
                            /\ handles'[h] = handles[h]
                            /\ EntryOf(h) \in DOMAIN heap'
                            /\ heap'[EntryOf(h)] = heap[EntryOf(h)]
          /\ (pc[t] = "try_assert" /\ ~op[t].registered) =>
                /\ EntryOf(op[t].slot) \in DOMAIN heap
                /\ ENABLED try_assert(t)
                /\ TryAssertReturns(t) =>
                      LET cs == CriteriaOf(op[t].slot)
                          now == heap[EntryOf(op[t].slot)]
                      IN /\ ~ret'[t][1].ok => ~Holds(cs[op[t].i], now)
                         /\ now = op[t].snap => (ret'[t][1].ok <=> AllHold(cs, now))]_vars

\* The other assertion on "checkout" was dropped, which removed the entry and
\* left the map empty; try_assert was then called on the one that stays, and
\* its first criterion has passed on the counters the handle still holds.
C20_Witness ==
    /\ entries = EmptyMap
    /\ handles[2] = None
    /\ Live(1)
    /\ heap[EntryOf(1)].created = 1
    /\ \E t \in Threads :
            /\ pc[t] = "try_assert"
            /\ op[t].slot = 1 /\ op[t].i = 2 /\ ~op[t].registered

\* C21: no stale entries.  In every state each key of the map is the matcher
\* of a handle that has not been disposed of (a handle whose Drop has not yet
\* removed the mapping still counts), and once no handle is left the map is
\* empty.
C21_NoStaleEntries ==
    /\ \A m \in DOMAIN entries :
            \E h \in Slots : handles[h] # None /\ MatcherOf(h) = m
    /\ (\A h \in Slots : handles[h] = None) => entries = EmptyMap

\* Every handle has been disposed of and the map is empty, while a hook that
\* looked its entry up before the disposal is still about to count.
C21_Witness ==
    /\ \A h \in Slots : handles[h] = None
    /\ entries = EmptyMap
    /\ \E t \in Threads : pc[t] = "track" /\ found[t] # None

\* A matcher that names what it selects, with something to assert about it.
Selective(m) == m.name # None \/ m.target # None
Constrains(m, cs) == Selective(m) /\ cs # <<>>

\* C24: every builder in the Constrained stage has a matcher, with a name or a
\* target set, and at least one criterion; so have the builder finalize hands
\* to create_entry and every Assertion; every key of the map has a name or a
\* target set, so none is the matcher with no criterion set at all.  Hence
\* finalize never finds its matcher absent.
C24_ConstrainedBuilderIsSelective ==
    /\ \A t \in Threads :
            (Building(t) /\ op[t].stage = "Constrained")
                => /\ op[t].matcher # None
                   /\ Constrains(op[t].matcher[1], op[t].criteria)
    /\ \A t \in Threads :
            pc[t] = "create_entry" => Constrains(op[t].matcher, op[t].criteria)
    /\ \A h \in Slots :
            handles[h] # None => Constrains(MatcherOf(h), CriteriaOf(h))
    /\ \A m \in DOMAIN entries : Selective(m) /\ m # SpanMatcher_default

\* An assertion built from with_target, with_parent_name and a required field
\* is registered: its key has no name, and another thread holds a Constrained
\* builder.
C24_Witness ==
    /\ \E h \in Slots :
            /\ Live(h)
            /\ MatcherOf(h) \in DOMAIN entries
            /\ MatcherOf(h).name = None
            /\ MatcherOf(h).parent_name # None
            /\ MatcherOf(h).fields # <<>>
    /\ \E t \in Threads : Building(t) /\ op[t].stage = "Constrained"

\* A thread inside an operation: a hook, finalize, try_assert, assert or Drop.
Busy(t) ==
    pc[t] \in {"get_entry", "track", "create_entry", "remove_entry",
               "try_assert", "assert"}
Waiting(t) == pc[t] \in InsideMap /\ lock # t

\* C22: no operation blocks for ever.  A thread that reaches a lock() does not
\* hold the mutex, and the mutex is taken only when free; in every state a
\* thread inside an operation can take a step, or waits for a mutex whose
\* holder can take a step; and under fair scheduling every operation a thread
\* is inside comes to its end.
C22_NoOperationBlocks ==
    /\ [][\A t \in Threads :
            /\ (pc'[t] \in InsideMap /\ pc[t] # pc'[t]) => lock # t
            /\ (lock' = t /\ lock # t) => lock = NoThread]_vars
    /\ [](\A t \in Threads :
            /\ lock = t => pc[t] \in InsideMap
            /\ Busy(t) =>
                IF Waiting(t) /\ lock # NoThread
                THEN ENABLED Proceed(lock)
                ELSE ENABLED (Proceed(t) \/ entries_lock(t)))
    /\ \A t \in Threads : Busy(t) ~> ~Busy(t)

\* The thread takes this step.
Acting(t) == pc'[t] # pc[t] \/ op'[t] # op[t]
CounterChanges == \E a \in (DOMAIN heap) \cap (DOMAIN heap') : heap'[a] # heap[a]

\* C23: the counters are not accessed under the mutex.  A thread that holds
\* the mutex is inside get_entry, create_entry or remove_entry; the step it
\* takes there releases the mutex and changes no counter; and a step that
\* changes a counter, or that is a step of a hook's track_* call or of the
\* criteria loop of try_assert or assert, is taken by a thread that does not
\* hold the mutex.
C23_CountersOutsideTheLock ==
    [][\A t \in Threads :
          /\ lock = t => pc[t] \in InsideMap
          /\ (Acting(t) /\ lock = t) => lock' = NoThread /\ ~CounterChanges
          /\ (Acting(t) /\ (CounterChanges
                              \/ pc[t] \in {"track", "try_assert", "assert"}))
                => lock # t]_vars

\* A hook is about to increment the counters it looked up while the other
\* thread holds the mutex inside create_entry.
C23_Witness ==
    \E t, u \in Threads :
        /\ pc[t] = "track" /\ found[t] # None
        /\ lock = u /\ pc[u] = "create_entry"

\* The hooks of one kind that hold the allocation a between lookup and track.
Tracking(a, kind) ==
    {t \in Threads : pc[t] = "track" /\ found[t] = Some(a) /\ KindOf(op[t].hook) = kind}

\* C25: a hook counts on the allocation its lookup returned, whatever has been
\* disposed of and finalized since.  The step in which a hook counts changes
\* the counters of no other allocation; and for the entry the map holds, each
\* counter and the hooks of its kind still between lookup and track add up to
\* the lookups that returned this entry since it was inserted; a newly
\* created entry starts at zero and no hook in flight holds it.  So a rebuilt
\* entry never shows an increment from a lookup made before its insertion.
C25_LateHookCountsOnOldEntry ==
    /\ [](entries # EmptyMap =>
            /\ observed # None
            /\ observed[1].entry = entries[Checkout]
            /\ \A kind \in Kinds :
                    Num(heap, observed[1].entry, kind)
                        + Cardinality(Tracking(observed[1].entry, kind))
                    = observed[1].seen[kind])
    /\ [][/\ \A t \in Threads :
                HookReturns(t) =>
                    \A a \in (DOMAIN heap) \cap (DOMAIN heap') :
                        found[t] # Some(a) => heap'[a] = heap[a]
          /\ \A a \in (DOMAIN heap') \ (DOMAIN heap) :
                /\ heap'[a] = EntryState
                /\ \A t \in Threads : found[t] # Some(a)]_vars

\* A hook still holds the allocation it looked up for "checkout"; since the
\* lookup every assertion on that allocation was dropped and a new one was
\* finalized, whose entry is another allocation with all counters at zero.
C25_Witness ==
    \E t \in Threads, h \in Slots :
        /\ pc[t] = "track" /\ found[t] # None
        /\ \A g \in Slots : handles[g] # None => EntryOf(g) # found[t][1]
        /\ Live(h) /\ MatcherOf(h) = Checkout
        /\ Checkout \in DOMAIN entries /\ entries[Checkout] = EntryOf(h)
        /\ heap[EntryOf(h)] = EntryState

====
